---- MODULE Spec2Model ----
(***************************************************************************)
(* ExpenSync: the group-expense ledger and its settlement.                 *)
(*                                                                         *)
(* The model covers src/db.py (add_group_expense, settle_expense_share,    *)
(* the SQLite connection every call opens) and the add-expense form of     *)
(* src/pages/4_..._Group_Expenses.py (the split computation and the        *)
(* validation before the store is called), the View tab's balance metrics  *)
(* over get_group_expenses, and set_budget / get_budget.                   *)
(*                                                                         *)
(* Store.  Every call opens its own connection (_connect), runs its        *)
(* statements and commits.  Python's sqlite3 opens a transaction before    *)
(* the first INSERT/UPDATE of a connection; SQLite lets one connection     *)
(* at a time hold the write lock, from its first write to its commit or    *)
(* rollback.  ge/ges are the committed tables; txn[c] holds the tables as  *)
(* connection c sees them inside its open transaction (its uncommitted     *)
(* changes included).                                                      *)
(*                                                                         *)
(* Amounts are Python floats.  A float is modelled as a binary floating    *)
(* point number with MantBits significant bits, held as an integer count   *)
(* of units of 2^-FracBits; every arithmetic result is rounded to the      *)
(* nearest representable value, ties to even, as IEEE 754 does.            *)
(***************************************************************************)
EXTENDS Integers, Sequences, FiniteSets, TLC

(***************************************************************************)
(* Bounds of the model.                                                    *)
(***************************************************************************)
MaxExpenses == 1      \* group expenses ever created
MaxTime == 1          \* the clock runs 0..MaxTime
MantBits == 7         \* significant bits of a float (53 in the program)
MaxBudgetCalls == 3   \* set_budget calls made
MaxParticipants == 5  \* users selected in the form of SpecSplit

FracBits == MantBits + 2

RECURSIVE Pow2(_)
Pow2(n) == IF n = 0 THEN 1 ELSE 2 * Pow2(n - 1)

Unit == Pow2(FracBits)

\* The float whose value is the integer n (n has at most MantBits bits here).
F(n) == n * Unit

(***************************************************************************)
(* Float arithmetic.                                                       *)
(***************************************************************************)
\* The exponent e >= 0 with num/den < 2^(MantBits+e), least such.
RoundExp(num, den) ==
    CHOOSE e \in 0..(FracBits + 4) :
        /\ num < den * Pow2(MantBits + e)
        /\ (e = 0 \/ num >= den * Pow2(MantBits + e - 1))

\* num/den (num >= 0, den > 0, in units) rounded to MantBits significant
\* bits, to nearest, ties to even.
RoundQ(num, den) ==
    IF num = 0 THEN 0
    ELSE LET e == RoundExp(num, den)
             d == den * Pow2(e)
             q == num \div d
             r == num - q * d
             up == \/ 2 * r > d
                   \/ (2 * r = d /\ q % 2 = 1)
         IN  (IF up THEN q + 1 ELSE q) * Pow2(e)

\* x rounded; the sign is kept.
Round(x) == IF x >= 0 THEN RoundQ(x, 1) ELSE 0 - RoundQ(0 - x, 1)

FAdd(a, b) == Round(a + b)
FSub(a, b) == Round(a - b)
FDiv(a, n) == RoundQ(a, n)


\* sum(s["amount"] for s in shares): Python adds left to right from 0.
RECURSIVE SumFrom(_, _, _)
SumFrom(acc, shares, i) ==
    IF i > Len(shares) THEN acc
    ELSE SumFrom(FAdd(acc, shares[i].amount), shares, i + 1)

FSum(shares) == SumFrom(0, shares, 1)

(***************************************************************************)
(* The users table and the values the form's inputs are drawn from.        *)
(***************************************************************************)
Users == {1, 2, 3}

\* A user id that references no row of users.
GhostUser == Cardinality(Users) + 1

Conns == {"c1", "c2"}

NULL == 0 - 1

\* st.number_input("Total Amount", min_value=0.0)
Amounts == {0, F(100), F(300)}

\* st.number_input("Amount for ...", min_value=0.0, max_value=amount)
CustomAmounts(amount) == {v \in {0, F(100), F(200)} : v <= amount}

\* st.multiselect over the other users.
Selections(user) ==
    LET others == Users \ {user}
    IN  {<<>>} \cup {<<a>> : a \in others}
               \cup {s \in others \X others : s[1] < s[2]}

VARIABLES
    ge,      \* group_expenses, committed: row id -> row
    ges,     \* group_expense_shares, committed: row id -> row
    txn,     \* each connection's open transaction: the tables as it sees them
    now,     \* datetime('now')
    pc,      \* each connection's position in its call
    loc,     \* each connection's arguments and local variables
    budgets,     \* the budgets table: row id -> row
    set_calls,   \* the set_budget calls made so far, in order
    split        \* an equal split of the form: its inputs, then its outcome

vars == <<ge, ges, txn, now, pc, loc, budgets, set_calls, split>>

Resting == {"idle", "done", "raised", "crashed"}

NoTxn == [open |-> FALSE, ge |-> <<>>, ges |-> <<>>]

\* No equal split is under examination.
NoSplit == [stage |-> "none"]

NoLoc ==
    [op |-> "none", share_id |-> 0, user_id |-> 0, group_expense_id |-> 0,
     pending_count |-> NULL, blocked |-> FALSE, amount |-> 0, payer_id |-> 0,
     shares |-> <<>>, expense_id |-> 0, idx |-> 0]

Init ==
    /\ ge = <<>>
    /\ ges = <<>>
    /\ txn = [c \in Conns |-> NoTxn]
    /\ now = 0
    /\ pc = [c \in Conns |-> "idle"]
    /\ loc = [c \in Conns |-> NoLoc]
    /\ budgets = <<>>
    /\ set_calls = <<>>
    /\ split = NoSplit

(***************************************************************************)
(* The statements of db.py, as functions of the tables.                    *)
(***************************************************************************)
ExpenseRow(amount, payer_id) ==
    [amount |-> amount, payer_id |-> payer_id, is_settled |-> 0, settled_at |-> NULL]

ShareRow(expense_id, share) ==
    [group_expense_id |-> expense_id, user_id |-> share.user_id,
     share_amount |-> share.amount, is_settled |-> 0, settled_at |-> NULL]

\* FOREIGN KEY ... REFERENCES users(id), with PRAGMA foreign_keys = ON
UserExists(user_id) == user_id \in Users

\* UpdateShare undoing a settlement it finds: is_settled = 1 - is_settled.
UpdateShareToggles(shares, share_id, user_id, t) ==
    [i \in 1..Len(shares) |->
        IF i = share_id /\ shares[i].user_id = user_id
        THEN [shares[i] EXCEPT !.is_settled = 1 - @, !.settled_at = t]
        ELSE shares[i]]

\* UPDATE group_expense_shares SET is_settled = 1, settled_at = datetime('now')
\* WHERE id = share_id AND user_id = user_id
UpdateShare(shares, share_id, user_id, t) ==
    [i \in 1..Len(shares) |->
        IF i = share_id /\ shares[i].user_id = user_id
        THEN [shares[i] EXCEPT !.is_settled = 1, !.settled_at = t]
        ELSE shares[i]]

\* PendingCount without its is_settled = 0 condition.
PendingCountAll(shares, e) ==
    Cardinality({i \in 1..Len(shares) : shares[i].group_expense_id = e})

\* SELECT COUNT(*) FROM group_expense_shares
\* WHERE group_expense_id = e AND is_settled = 0
PendingCount(shares, e) ==
    Cardinality({i \in 1..Len(shares) :
                    shares[i].group_expense_id = e /\ shares[i].is_settled = 0})

\* ParentDue off by one: the expense is marked with a share still pending.
ParentDueOffByOne(pending_count) == pending_count <= 1

\* if pending_count == 0
ParentDue(pending_count) == pending_count = 0

\* UPDATE group_expenses SET is_settled = 1, settled_at = datetime('now')
\* WHERE id = e
MarkExpenseSettled(expenses, e, t) ==
    [i \in 1..Len(expenses) |->
        IF i = e THEN [expenses[i] EXCEPT !.is_settled = 1, !.settled_at = t]
        ELSE expenses[i]]

(***************************************************************************)
(* The connection: transactions and SQLite's write lock.                   *)
(***************************************************************************)
\* CanWrite with no write lock: every connection writes when it likes.
CanWriteUnlocked(c) == TRUE

\* A write statement of c can run: no other connection holds the write lock.
CanWrite(c) == \A d \in Conns \ {c} : ~txn[d].open

\* The tables as c's next statement sees them: its open transaction, or the
\* committed tables when the statement opens one.
View(c) == IF txn[c].open THEN txn[c] ELSE [open |-> TRUE, ge |-> ge, ges |-> ges]

\* Rollback for a connection whose close commits what was written so far.
RollbackKeeps(committed, uncommitted) == uncommitted

\* The committed table after a connection is closed with a transaction
\* open (conn.close() without conn.commit()): the transaction is rolled back.
Rollback(committed, uncommitted) == committed

\* Recover for a connection in autocommit mode: each statement's write is
\* in the committed table at once.
RecoverKeeps(committed, uncommitted) == uncommitted

\* The committed table after the process stopped with a transaction open:
\* nothing was written outside a transaction, and SQLite rolls the
\* transaction back when the database is next opened.
Recover(committed, uncommitted) == committed

\* What stays of a call's locals once it is over: which call it was and how
\* far it got.
Ended(l) ==
    [NoLoc EXCEPT !.op = l.op, !.pending_count = l.pending_count, !.idx = l.idx,
                  !.blocked = l.blocked]

\* conn.commit(); conn.close(); the call returns.
Commit(c) ==
    /\ ge' = txn[c].ge
    /\ ges' = txn[c].ges
    /\ txn' = [txn EXCEPT ![c] = NoTxn]
    /\ pc' = [pc EXCEPT ![c] = "done"]
    /\ loc' = [loc EXCEPT ![c] = Ended(@)]
    /\ UNCHANGED <<now, budgets, set_calls, split>>

(***************************************************************************)
(* db.add_group_expense, statement by statement.                           *)
(***************************************************************************)
\* Expenses created plus calls in progress that will create one.
AddsInFlight ==
    Cardinality({c \in Conns : pc[c] \in {"a_expense", "a_share", "a_commit"}})

\* The call is entered: a connection is opened.
AddEnter(c, amount, payer_id, shares) ==
    /\ pc[c] \in Resting
    /\ Len(ge) + AddsInFlight < MaxExpenses
    /\ pc' = [pc EXCEPT ![c] = "a_expense"]
    /\ loc' = [loc EXCEPT ![c] = [NoLoc EXCEPT !.op = "add", !.amount = amount,
                                     !.payer_id = payer_id, !.shares = shares]]
    /\ UNCHANGED <<ge, ges, txn, now, budgets, set_calls, split>>

\* An exception leaves the try block: finally conn.close(), no commit.
AddRaises(c) ==
    /\ pc' = [pc EXCEPT ![c] = "raised"]
    /\ ge' = Rollback(ge, View(c).ge)
    /\ ges' = Rollback(ges, View(c).ges)
    /\ txn' = [txn EXCEPT ![c] = NoTxn]
    /\ loc' = [loc EXCEPT ![c] = Ended(@)]
    /\ UNCHANGED <<now, budgets, set_calls, split>>

\* INSERT INTO group_expenses; payer_id must reference a user.
AddInsertExpense(c) ==
    /\ pc[c] = "a_expense"
    /\ CanWrite(c)
    /\ IF UserExists(loc[c].payer_id)
       THEN /\ txn' = [txn EXCEPT ![c] =
                   [View(c) EXCEPT !.ge = Append(@, ExpenseRow(loc[c].amount, loc[c].payer_id))]]
            /\ loc' = [loc EXCEPT ![c].expense_id = Len(View(c).ge) + 1, ![c].idx = 1]
            /\ pc' = [pc EXCEPT ![c] = IF loc[c].shares = <<>> THEN "a_commit" ELSE "a_share"]
            /\ UNCHANGED <<ge, ges, now, budgets, set_calls, split>>
       ELSE AddRaises(c)

\* INSERT INTO group_expense_shares, one share per step; user_id must
\* reference a user.
AddInsertShare(c) ==
    /\ pc[c] = "a_share"
    /\ LET share == loc[c].shares[loc[c].idx]
       IN  IF UserExists(share.user_id)
           THEN /\ txn' = [txn EXCEPT ![c].ges = Append(@, ShareRow(loc[c].expense_id, share))]
                /\ loc' = [loc EXCEPT ![c].idx = @ + 1]
                /\ pc' = [pc EXCEPT ![c] =
                            IF loc[c].idx = Len(loc[c].shares) THEN "a_commit" ELSE "a_share"]
                /\ UNCHANGED <<ge, ges, now, budgets, set_calls, split>>
           ELSE AddRaises(c)

AddCommit(c) ==
    /\ pc[c] = "a_commit"
    /\ Commit(c)

(***************************************************************************)
(* db.settle_expense_share, statement by statement.                        *)
(***************************************************************************)
\* The call is entered: a connection is opened.
SettleEnter(c, share_id, user_id) ==
    /\ pc[c] \in Resting
    /\ pc' = [pc EXCEPT ![c] = "s_update"]
    /\ loc' = [loc EXCEPT ![c] = [NoLoc EXCEPT !.op = "settle", !.share_id = share_id,
                                     !.user_id = user_id]]
    /\ UNCHANGED <<ge, ges, txn, now, budgets, set_calls, split>>

\* 1. Mark this share as settled.
SettleUpdateShare(c) ==
    /\ pc[c] = "s_update"
    /\ CanWrite(c)
    /\ txn' = [txn EXCEPT ![c] =
            [View(c) EXCEPT !.ges = UpdateShare(@, loc[c].share_id, loc[c].user_id, now)]]
    /\ pc' = [pc EXCEPT ![c] = "s_lookup"]
    /\ UNCHANGED <<ge, ges, now, loc, budgets, set_calls, split>>

\* 2. Find the expense_id linked to this share.
SettleLookup(c) ==
    /\ pc[c] = "s_lookup"
    /\ IF loc[c].share_id \in 1..Len(txn[c].ges)
       THEN /\ loc' = [loc EXCEPT ![c].group_expense_id =
                          txn[c].ges[loc[c].share_id].group_expense_id]
            /\ pc' = [pc EXCEPT ![c] = "s_count"]
       ELSE /\ pc' = [pc EXCEPT ![c] = "s_commit"]
            /\ UNCHANGED loc
    /\ UNCHANGED <<ge, ges, txn, now, budgets, set_calls, split>>

\* 3. Check if all shares of this expense are settled.
SettleCount(c) ==
    /\ pc[c] = "s_count"
    /\ LET pending_count == PendingCount(txn[c].ges, loc[c].group_expense_id)
       IN  /\ loc' = [loc EXCEPT ![c].pending_count = pending_count]
           /\ pc' = [pc EXCEPT ![c] =
                       IF ParentDue(pending_count) THEN "s_parent" ELSE "s_commit"]
    /\ UNCHANGED <<ge, ges, txn, now, budgets, set_calls, split>>

SettleParent(c) ==
    /\ pc[c] = "s_parent"
    /\ txn' = [txn EXCEPT ![c].ge = MarkExpenseSettled(@, loc[c].group_expense_id, now)]
    /\ pc' = [pc EXCEPT ![c] = "s_commit"]
    /\ UNCHANGED <<ge, ges, now, loc, budgets, set_calls, split>>

SettleCommit(c) ==
    /\ pc[c] = "s_commit"
    /\ Commit(c)

(***************************************************************************)
(* The two calls as single transactions: what a call that runs from its    *)
(* first statement to its commit makes of the committed tables.            *)
(***************************************************************************)
RECURSIVE InsertShares(_, _, _, _)
\* The shares table after the loop over shares[i..], or "raised" when a
\* share's user_id references no user.
InsertShares(shares_tbl, expense_id, shares, i) ==
    IF i > Len(shares) THEN [raised |-> FALSE, ges |-> shares_tbl]
    ELSE IF UserExists(shares[i].user_id)
         THEN InsertShares(Append(shares_tbl, ShareRow(expense_id, shares[i])),
                           expense_id, shares, i + 1)
         ELSE [raised |-> TRUE, ges |-> shares_tbl]

AddTxn(expenses, shares_tbl, amount, payer_id, shares) ==
    IF ~UserExists(payer_id)
    THEN [raised |-> TRUE, ge |-> Rollback(expenses, expenses), ges |-> shares_tbl]
    ELSE LET ge1 == Append(expenses, ExpenseRow(amount, payer_id))
             r == InsertShares(shares_tbl, Len(ge1), shares, 1)
         IN  IF r.raised
             THEN [raised |-> TRUE, ge |-> Rollback(expenses, ge1),
                   ges |-> Rollback(shares_tbl, r.ges)]
             ELSE [raised |-> FALSE, ge |-> ge1, ges |-> r.ges]

\* t1, t2: datetime('now') at the share update and at the expense update.
SettleTxn(expenses, shares_tbl, share_id, user_id, t1, t2) ==
    LET ges1 == UpdateShare(shares_tbl, share_id, user_id, t1)
    IN  IF share_id \in 1..Len(ges1)
        THEN LET group_expense_id == ges1[share_id].group_expense_id
                 pending_count == PendingCount(ges1, group_expense_id)
             IN  IF ParentDue(pending_count)
                 THEN [ge |-> MarkExpenseSettled(expenses, group_expense_id, t2), ges |-> ges1]
                 ELSE [ge |-> expenses, ges |-> ges1]
        ELSE [ge |-> expenses, ges |-> ges1]

(***************************************************************************)
(* The add-expense form (tab_add).                                         *)
(***************************************************************************)
\* The Equal branch: one share per selected user, then the payer's.
EqualShares(user, amount, selected) ==
    LET share_amount == FDiv(amount, Len(selected) + 1)
    IN  [i \in 1..Len(selected) |->
            [user_id |-> selected[i], amount |-> share_amount]]
        \o <<[user_id |-> user, amount |-> share_amount]>>

\* The Custom branch's loop: the selected users whose input is > 0, and the
\* running total.
RECURSIVE CustomLoop(_, _, _, _, _)
CustomLoop(selected, custom, i, shares, total) ==
    IF i > Len(selected) THEN [shares |-> shares, total |-> total]
    ELSE IF custom[i] > 0
         THEN CustomLoop(selected, custom, i + 1,
                  Append(shares, [user_id |-> selected[i], amount |-> custom[i]]),
                  FAdd(total, custom[i]))
         ELSE CustomLoop(selected, custom, i + 1, shares, total)

\* The payer's share of a custom split is the remainder, when it is > 0.
CustomShares(user, amount, selected, custom) ==
    LET r == CustomLoop(selected, custom, 1, <<>>, 0)
        remaining == FSub(amount, r.total)
    IN  IF remaining > 0
        THEN Append(r.shares, [user_id |-> user, amount |-> remaining])
        ELSE r.shares

BuildShares(user, amount, selected, split_type, custom) ==
    IF split_type = "Equal" /\ selected # <<>>
    THEN EqualShares(user, amount, selected)
    ELSE IF split_type = "Custom" /\ selected # <<>>
         THEN CustomShares(user, amount, selected, custom)
         ELSE <<>>

\* "Please fill in all required fields."
RequiredMissing(title, amount, selected) ==
    ~title \/ amount <= 0 \/ selected = <<>>

\* SharesMatch with the comparison left out.
SharesMatchAlways(shares, amount) == TRUE

\* The validation before the store is called: sum(shares) == amount.
SharesMatch(shares, amount) == FSum(shares) = amount

\* What the form was filled with.  title: whether one was typed.  custom is
\* read by the Custom branch alone.
FormInputs ==
    {f \in [user : Users, title : BOOLEAN, amount : Amounts,
            split_type : {"Equal", "Custom"},
            selected : UNION {Selections(u) : u \in Users},
            custom : UNION {[1..n -> CustomAmounts(F(300))] : n \in 0..2}] :
        /\ f.selected \in Selections(f.user)
        /\ DOMAIN f.custom = 1..Len(f.selected)
        /\ \A i \in DOMAIN f.custom : f.custom[i] \in CustomAmounts(f.amount)
        /\ f.split_type = "Equal" => \A i \in DOMAIN f.custom : f.custom[i] = 0}

FormShares(f) == BuildShares(f.user, f.amount, f.selected, f.split_type, f.custom)

\* The submit handler reaches db.add_group_expense.
FormAccepted(f) ==
    /\ ~RequiredMissing(f.title, f.amount, f.selected)
    /\ SharesMatch(FormShares(f), f.amount)

Quiet == \A c \in Conns : pc[c] \in Resting

\* The form is submitted and the handler runs to its end.
SubmitForm ==
    /\ Quiet
    /\ Len(ge) < MaxExpenses
    /\ \E f \in FormInputs :
        IF FormAccepted(f)
        THEN LET r == AddTxn(ge, ges, f.amount, f.user, FormShares(f))
             IN  /\ ge' = r.ge
                 /\ ges' = r.ges
                 /\ UNCHANGED <<txn, now, pc, loc, budgets, set_calls, split>>
        ELSE UNCHANGED vars

\* The form is submitted; db.add_group_expense then runs statement by
\* statement on connection c.
SubmitFormEnter(c, inputs) ==
    /\ pc[c] \in Resting
    /\ Len(ge) + AddsInFlight < MaxExpenses
    /\ \E f \in inputs :
        IF FormAccepted(f)
        THEN AddEnter(c, f.amount, f.user, FormShares(f))
        ELSE UNCHANGED vars

\* db.settle_expense_share(share_id, user_id), run to its end.
SettleShare ==
    /\ Quiet
    /\ \E user_id \in Users, share_id \in 1..(Len(ges) + 1) :
        LET r == SettleTxn(ge, ges, share_id, user_id, now, now)
        IN  /\ ge' = r.ge
            /\ ges' = r.ges
            /\ UNCHANGED <<txn, now, pc, loc, budgets, set_calls, split>>

SettleShareEnter(c) ==
    \E user_id \in Users, share_id \in 1..(Len(ges) + 1) :
        SettleEnter(c, share_id, user_id)

(***************************************************************************)
(* The environment: the lock's busy handler, the clock, a process stop.    *)
(***************************************************************************)
AtFirstWrite(c) == pc[c] \in {"s_update", "a_expense"}

\* The first write finds the database locked: sqlite3 waits (timeout 5 s).
BusyWait(c) ==
    /\ AtFirstWrite(c)
    /\ ~CanWrite(c)
    /\ ~loc[c].blocked
    /\ loc' = [loc EXCEPT ![c].blocked = TRUE]
    /\ UNCHANGED <<ge, ges, txn, now, pc, budgets, set_calls, split>>

\* The wait times out: OperationalError "database is locked"; nothing was
\* written by this call.
BusyTimeout(c) ==
    /\ AtFirstWrite(c)
    /\ ~CanWrite(c)
    /\ loc[c].blocked
    /\ pc' = [pc EXCEPT ![c] = "raised"]
    /\ loc' = [loc EXCEPT ![c] = Ended(@)]
    /\ UNCHANGED <<ge, ges, txn, now, budgets, set_calls, split>>

Tick ==
    /\ now < MaxTime
    /\ now' = now + 1
    /\ UNCHANGED <<ge, ges, txn, pc, loc, budgets, set_calls, split>>

Running == {c \in Conns : pc[c] \notin Resting}

RECURSIVE RecoverAll(_, _)
RecoverAll(committed, cs) ==
    IF cs = {} THEN committed
    ELSE LET c == CHOOSE x \in cs : TRUE
         IN  RecoverAll([ge |-> Recover(committed.ge, txn[c].ge),
                         ges |-> Recover(committed.ges, txn[c].ges)], cs \ {c})

\* The process stops with calls in progress; open transactions are rolled
\* back when the database is next opened.
Crash ==
    /\ Running # {}
    /\ pc' = [c \in Conns |-> IF c \in Running THEN "crashed" ELSE pc[c]]
    /\ loc' = [c \in Conns |-> IF c \in Running THEN Ended(loc[c]) ELSE loc[c]]
    /\ LET after == RecoverAll([ge |-> ge, ges |-> ges], {c \in Running : txn[c].open})
       IN  /\ ge' = after.ge
           /\ ges' = after.ges
    /\ txn' = [c \in Conns |-> NoTxn]
    /\ UNCHANGED <<now, budgets, set_calls, split>>

(***************************************************************************)
(* Spec: the form and settle_expense_share, each call run to its end       *)
(* before the next starts.                                                 *)
(***************************************************************************)
Next ==
    \/ SubmitForm
    \/ SettleShare

Spec == Init /\ [][Next]_vars

(***************************************************************************)
(* SpecClock: as Spec, with time passing between the calls.                *)
(***************************************************************************)
NextClock ==
    \/ SubmitForm
    \/ SettleShare
    \/ Tick

SpecClock == Init /\ [][NextClock]_vars


(***************************************************************************)
(* SpecCrash: one session; its calls run statement by statement and the    *)
(* process may stop between any two statements.                            *)
(***************************************************************************)
Session == "c1"

\* The submissions of this specification: those of the user logged in to the
\* session, of a total of 300 or of none.  Shares are settled by any user.
SessionUser == CHOOSE u \in Users : \A v \in Users : u <= v

CrashInputs ==
    {f \in FormInputs : f.user = SessionUser /\ f.amount \in {0, F(300)}}

Statement(c) ==
    \/ AddInsertExpense(c)
    \/ AddInsertShare(c)
    \/ AddCommit(c)
    \/ SettleUpdateShare(c)
    \/ SettleLookup(c)
    \/ SettleCount(c)
    \/ SettleParent(c)
    \/ SettleCommit(c)

NextCrash ==
    \/ SubmitFormEnter(Session, CrashInputs)
    \/ SettleShareEnter(Session)
    \/ Statement(Session)
    \/ Crash

SpecCrash == Init /\ [][NextCrash]_vars

(***************************************************************************)
(* SpecApi: db.add_group_expense called with any shares, those of users    *)
(* that do not exist included.                                             *)
(***************************************************************************)
ApiShares ==
    LET share == [user_id : {1, 2, GhostUser}, amount : {F(100)}]
    IN  {<<>>} \cup {<<a>> : a \in share} \cup (share \X share)
               \cup {<<a, b, [user_id |-> GhostUser, amount |-> F(100)]>> : a \in share, b \in share}

AddGroupExpenseEnter(c) ==
    \E amount \in {F(100), F(300)}, payer_id \in {1, GhostUser}, shares \in ApiShares :
        AddEnter(c, amount, payer_id, shares)

NextApi ==
    \/ AddGroupExpenseEnter(Session)
    \/ AddInsertExpense(Session)
    \/ AddInsertShare(Session)
    \/ AddCommit(Session)

SpecApi == Init /\ [][NextApi]_vars

(***************************************************************************)
(* SpecRace: two sessions call settle_expense_share at the same time, each *)
(* on its own connection, on the last two pending shares of an expense.    *)
(***************************************************************************)
\* The tables after an accepted submission of the form.
Created(f) == AddTxn(<<>>, <<>>, f.amount, f.user, FormShares(f))

\* The owners of all shares but s1 and s2 have settled theirs.
RECURSIVE SettleOthers(_, _, _, _)
SettleOthers(store, s1, s2, i) ==
    IF i > Len(store.ges) THEN store
    ELSE IF i \in {s1, s2} THEN SettleOthers(store, s1, s2, i + 1)
         ELSE SettleOthers(SettleTxn(store.ge, store.ges, i, store.ges[i].user_id, 0, 0),
                           s1, s2, i + 1)

InitRace ==
    /\ \E f \in FormInputs :
        /\ FormAccepted(f)
        /\ \E s1, s2 \in 1..Len(Created(f).ges) :
            /\ s1 # s2
            /\ LET store == SettleOthers(Created(f), s1, s2, 1)
               IN  /\ ge = store.ge
                   /\ ges = store.ges
                   /\ loc = [c \in Conns |->
                               [NoLoc EXCEPT !.op = "settle",
                                   !.share_id = IF c = Session THEN s1 ELSE s2,
                                   !.user_id = store.ges[IF c = Session THEN s1 ELSE s2].user_id]]
    /\ txn = [c \in Conns |-> NoTxn]
    /\ now = 0
    /\ pc = [c \in Conns |-> "s_update"]
    /\ budgets = <<>>
    /\ set_calls = <<>>
    /\ split = NoSplit

NextRace ==
    \/ \E c \in Conns :
        \/ SettleUpdateShare(c)
        \/ SettleLookup(c)
        \/ SettleCount(c)
        \/ SettleParent(c)
        \/ SettleCommit(c)
        \/ BusyWait(c)
        \/ BusyTimeout(c)
    \/ Tick

SpecRace == InitRace /\ [][NextRace]_vars


(***************************************************************************)
(* SpecBudget: db.set_budget calls, and what db.get_budget then returns.   *)
(***************************************************************************)
YearMonths == {"2026-01", "2026-02"}

\* category = None: the overall budget, stored as SQL NULL.
None == "None"

Categories == {None, "Food"}

BudgetAmounts == {F(100), F(300)}

\* UNIQUE(user_id, year_month, category): two rows conflict when the three
\* columns are equal; SQLite holds two NULLs to be different values.
Conflicts(row, user_id, year_month, category) ==
    /\ row.user_id = user_id
    /\ row.year_month = year_month
    /\ row.category # None
    /\ category # None
    /\ row.category = category

\* INSERT INTO budgets ... ON CONFLICT(user_id, year_month, category)
\* DO UPDATE SET amount = excluded.amount
Upsert(tbl, user_id, year_month, category, amount) ==
    IF \E i \in 1..Len(tbl) : Conflicts(tbl[i], user_id, year_month, category)
    THEN [i \in 1..Len(tbl) |->
            IF Conflicts(tbl[i], user_id, year_month, category)
            THEN [tbl[i] EXCEPT !.amount = amount]
            ELSE tbl[i]]
    ELSE Append(tbl, [user_id |-> user_id, year_month |-> year_month,
                      category |-> category, amount |-> amount])

\* db.set_budget(user_id, year_month, category, amount)
set_budget ==
    /\ Len(set_calls) < MaxBudgetCalls
    /\ \E user_id \in Users, year_month \in YearMonths,
          category \in Categories, amount \in BudgetAmounts :
        /\ budgets' = Upsert(budgets, user_id, year_month, category, amount)
        /\ set_calls' = Append(set_calls,
                              [user_id |-> user_id, year_month |-> year_month,
                               category |-> category, amount |-> amount])
    /\ UNCHANGED <<ge, ges, txn, now, pc, loc, split>>

\* WHERE user_id = ? AND year_month = ? AND category IS ?
\* (IS holds between two NULLs.)
Selected(user_id, year_month, category) ==
    {i \in 1..Len(budgets) :
        /\ budgets[i].user_id = user_id
        /\ budgets[i].year_month = year_month
        /\ budgets[i].category = category}

\* db.get_budget(user_id, year_month, category): the values the call may
\* return.  fetchone() takes the first row of a SELECT that has no ORDER
\* BY, which may be any of the rows selected; None when there is no row.
get_budget(user_id, year_month, category) ==
    IF Selected(user_id, year_month, category) = {}
    THEN {NULL}
    ELSE {budgets[i].amount : i \in Selected(user_id, year_month, category)}

NextBudget == set_budget

SpecBudget == Init /\ [][NextBudget]_vars

(***************************************************************************)
(* SpecSplit: the Equal branch of the form and the validation of its       *)
(* shares, for one submission.                                             *)
(***************************************************************************)
RECURSIVE CompensatedFrom(_, _, _, _)
\* sum() of floats as CPython 3.12 and later computes it: the rounding
\* error of every addition is kept in c and added to the total at the end.
CompensatedFrom(hi, c, shares, i) ==
    IF i > Len(shares) THEN FAdd(hi, c)
    ELSE LET x == shares[i].amount
             t == FAdd(hi, x)
             err == IF hi >= x THEN FAdd(FSub(hi, t), x)
                               ELSE FAdd(FSub(x, t), hi)
         IN  CompensatedFrom(t, FAdd(c, err), shares, i + 1)

FSumCompensated(shares) == CompensatedFrom(0, 0, shares, 1)

\* sum(): which of the two the interpreter running the page computes.
Sums == {"plain", "compensated"}

Sum(kind, shares) ==
    IF kind = "plain" THEN FSum(shares) ELSE FSumCompensated(shares)

\* Total amounts typed into the form: 1, 2, ... 100.
SplitTotals == {F(n) : n \in 1..100}

\* The users selected: the n after the payer.
Participants(user, n) == [i \in 1..n |-> user + i]

SplitInputs ==
    [stage : {"typed"}, user : {SessionUser}, amount : SplitTotals,
     n : 1..MaxParticipants, sum : Sums]

InitSplit ==
    /\ ge = <<>>
    /\ ges = <<>>
    /\ txn = [c \in Conns |-> NoTxn]
    /\ now = 0
    /\ pc = [c \in Conns |-> "idle"]
    /\ loc = [c \in Conns |-> NoLoc]
    /\ budgets = <<>>
    /\ set_calls = <<>>
    /\ split \in SplitInputs

\* The form is submitted with Split Type "Equal": the shares are built and
\* the handler's two checks are made.
SubmitEqual ==
    /\ split.stage = "typed"
    /\ LET selected == Participants(split.user, split.n)
           shares == BuildShares(split.user, split.amount, selected, "Equal", <<>>)
       IN  split' = [stage |-> "submitted", user |-> split.user,
                     amount |-> split.amount, n |-> split.n, sum |-> split.sum,
                     shares |-> shares,
                     accepted |->
                        /\ ~RequiredMissing(TRUE, split.amount, selected)
                        /\ Sum(split.sum, shares) = split.amount]
    /\ UNCHANGED <<ge, ges, txn, now, pc, loc, budgets, set_calls>>

NextSplit == SubmitEqual

SpecSplit == InitSplit /\ [][NextSplit]_vars

(***************************************************************************)
(* The View tab: db.get_group_expenses and the balance metrics.            *)
(***************************************************************************)
\* One row of the join of an expense with one of its shares.
JoinRow(e, i) ==
    [expense_id |-> e, amount |-> ge[e].amount, payer_id |-> ge[e].payer_id,
     is_settled |-> ge[e].is_settled, share_id |-> i,
     user_id |-> ges[i].user_id, share_amount |-> ges[i].share_amount,
     share_settled |-> ges[i].is_settled]

RECURSIVE JoinRows(_, _, _)
\* FROM group_expenses ge JOIN group_expense_shares ges
\*   ON ge.id = ges.group_expense_id
\* WHERE ges.user_id = ? OR ge.payer_id = ?  ORDER BY ge.date DESC, ge.id DESC
\* from expense e downwards, share rows from i upwards.
JoinRows(user_id, e, i) ==
    IF e = 0 THEN <<>>
    ELSE IF i > Len(ges) THEN JoinRows(user_id, e - 1, 1)
    ELSE IF /\ ges[i].group_expense_id = e
            /\ (ges[i].user_id = user_id \/ ge[e].payer_id = user_id)
         THEN <<JoinRow(e, i)>> \o JoinRows(user_id, e, i + 1)
         ELSE JoinRows(user_id, e, i + 1)

get_group_expenses(user_id) == JoinRows(user_id, Len(ge), 1)

RECURSIVE Totals(_, _, _, _)
\* for exp in expenses: a row of another payer adds its share_amount to
\* total_owed unless exp["is_settled"]; a row of the user's own expense adds
\* exp["amount"] to total_paid.
Totals(expenses, user_id, i, t) ==
    IF i > Len(expenses) THEN t
    ELSE LET exp == expenses[i]
         IN  Totals(expenses, user_id, i + 1,
                 IF exp.payer_id # user_id
                 THEN IF exp.is_settled = 0
                      THEN [t EXCEPT !.total_owed = FAdd(@, exp.share_amount)]
                      ELSE t
                 ELSE [t EXCEPT !.total_paid = FAdd(@, exp.amount)])

\* The "You Owe" and "You Paid" metrics of the user logged in.
Balance(user_id) ==
    Totals(get_group_expenses(user_id), user_id, 1,
           [total_owed |-> 0, total_paid |-> 0])

(***************************************************************************)
(* Properties.                                                             *)
(***************************************************************************)
Expenses == 1..Len(ge)

\* The ids of the share rows of expense e, in the committed tables.
SharesOf(e) == {i \in 1..Len(ges) : ges[i].group_expense_id = e}

PendingOf(e) == {i \in SharesOf(e) : ges[i].is_settled = 0}

SettledOf(e) == {i \in SharesOf(e) : ges[i].is_settled = 1}

\* C1: in every committed state a group expense is settled if and only if
\* every one of its share rows is settled.
C1_SettledIffAllSharesSettled ==
    \A e \in Expenses : (ge[e].is_settled = 1) <=> (PendingOf(e) = {})

\* An expense with a settled and a pending share, itself pending.
C1_Witness ==
    \E e \in Expenses :
        /\ SettledOf(e) # {}
        /\ PendingOf(e) # {}
        /\ ge[e].is_settled = 0

\* C2: a step in which a pending share becomes settled (its owner's
\* settle_expense_share) leaves the parent settled when that share was the
\* last pending one, and pending when another share is still pending.
C2_LastShareSettlesParent ==
    [][\A s \in 1..Len(ges) :
          (ges[s].is_settled = 0 /\ ges'[s].is_settled = 1) =>
              LET e == ges[s].group_expense_id
              IN  /\ PendingOf(e) = {s} => ge'[e].is_settled = 1
                  /\ PendingOf(e) # {s} => ge'[e].is_settled = 0]_vars

\* An expense of two or more shares that the last settlement has settled.
C2_Witness ==
    \E e \in Expenses :
        /\ Cardinality(SharesOf(e)) >= 2
        /\ PendingOf(e) = {}
        /\ ge[e].is_settled = 1

\* The expense of the scenario: total 300, three shares of 100, the payer's
\* and two participants'.
IsScenario(e) ==
    /\ ge[e].amount = F(300)
    /\ Cardinality(SharesOf(e)) = 3
    /\ \A i \in SharesOf(e) : ges[i].share_amount = F(100)
    /\ \E i \in SharesOf(e) : ges[i].user_id = ge[e].payer_id

\* C3: total 300 split equally among payer P and participants A and B: with
\* one participant's share settled the expense is Pending, with both
\* participants' shares settled it is Settled.
C3_ScenarioSettlesAfterBothParticipants ==
    \A e \in Expenses :
        IsScenario(e) =>
            LET paid == {i \in SettledOf(e) : ges[i].user_id # ge[e].payer_id}
            IN  /\ Cardinality(paid) = 1 => ge[e].is_settled = 0
                /\ Cardinality(paid) = 2 => ge[e].is_settled = 1

RECURSIVE RowSum(_, _, _)
\* The share amounts of expense e added up in row order, as the form's
\* sum() adds the shares it is about to store.
RowSum(e, i, acc) ==
    IF i > Len(ges) THEN acc
    ELSE RowSum(e, i + 1,
                IF ges[i].group_expense_id = e THEN FAdd(acc, ges[i].share_amount) ELSE acc)

\* C4: the share amounts of every expense the form has stored add up to
\* the expense's amount (a submission whose shares do not is not stored).
C4_SharesSumToAmount ==
    \A e \in Expenses : RowSum(e, 1, 0) = ge[e].amount

\* A stored expense of 100 split three ways.
C4_Witness ==
    \E e \in Expenses :
        /\ ge[e].amount = F(100)
        /\ Cardinality(SharesOf(e)) = 3

\* C5: every expense the form has stored has a share row of its payer.
C5_PayerHasShare ==
    \A e \in Expenses : \E i \in SharesOf(e) : ges[i].user_id = ge[e].payer_id

\* The step is the call settle_expense_share(share_id, user_id).
IsSettleCall(share_id, user_id) ==
    LET r == SettleTxn(ge, ges, share_id, user_id, now, now)
    IN  ge' = r.ge /\ ges' = r.ges /\ UNCHANGED <<txn, now, pc, loc, budgets, set_calls, split>>

\* C6: settle_expense_share by the owner of a share that is already
\* settled changes neither the share's row nor its parent expense's row.
C6_SecondSettleChangesNothing ==
    [][\A s \in 1..Len(ges) :
          (ges[s].is_settled = 1 /\ IsSettleCall(s, ges[s].user_id)) =>
              /\ ges'[s] = ges[s]
              /\ ge'[ges[s].group_expense_id] = ge[ges[s].group_expense_id]]_vars

\* C7: settle_expense_share by a user who does not own the share changes
\* no share row and no expense row.
C7_OthersShareIsNoOp ==
    [][\A s \in 1..Len(ges), u \in Users :
          (ges[s].user_id # u /\ IsSettleCall(s, u)) => (ge' = ge /\ ges' = ges)]_vars

\* C8: when an insert of add_group_expense fails, the call raises and the
\* committed tables hold neither the new expense row nor any share of it.
C8_AddIsAllOrNothing ==
    [][\A c \in Conns :
          (/\ pc[c] = "a_share"
           /\ ~UserExists(loc[c].shares[loc[c].idx].user_id)
           /\ pc'[c] # pc[c]) =>
              /\ pc'[c] = "raised"
              /\ \A d \in Conns : ~txn'[d].open
              /\ Len(ge') < loc[c].expense_id
              /\ \A i \in 1..Len(ges') : ges'[i].group_expense_id # loc[c].expense_id]_vars

\* The call has raised at its second or a later share, and nothing is stored.
C8_Witness ==
    \E c \in Conns :
        /\ pc[c] = "raised"
        /\ loc[c].op = "add"
        /\ loc[c].idx >= 2
        /\ ge = <<>>
        /\ ges = <<>>

\* C9: whatever the statement the process stops after, a step changes the
\* committed tables by all the writes of one call or not at all, and no
\* committed state has every share of an expense settled and the expense
\* not settled.
C9_CrashAtomic ==
    /\ [][\/ ge' = ge /\ ges' = ges
          \/ \E c \in Conns :
                /\ pc[c] = "s_commit"
                /\ LET r == SettleTxn(ge, ges, loc[c].share_id, loc[c].user_id, now, now)
                   IN  ge' = r.ge /\ ges' = r.ges
          \/ \E c \in Conns :
                /\ pc[c] = "a_commit"
                /\ LET r == AddTxn(ge, ges, loc[c].amount, loc[c].payer_id, loc[c].shares)
                   IN  ge' = r.ge /\ ges' = r.ges]_vars
    /\ [](\A e \in Expenses : PendingOf(e) = {} => ge[e].is_settled = 1)

\* The process stopped in a settle call that had counted no pending share;
\* the committed tables still show that call's share pending.
C9_Witness ==
    \E c \in Conns :
        /\ pc[c] = "crashed"
        /\ loc[c].op = "settle"
        /\ loc[c].pending_count = 0
        /\ \E e \in Expenses : Cardinality(PendingOf(e)) = 1 /\ ge[e].is_settled = 0

\* C10: once both concurrent calls have returned, both shares are settled
\* and the expense is settled.
C10_RaceConverges ==
    (\A c \in Conns : pc[c] = "done") =>
        /\ \A i \in 1..Len(ges) : ges[i].is_settled = 1
        /\ \A e \in Expenses : ge[e].is_settled = 1

\* Both calls have returned, and one of them had to wait for the lock.
C10_Witness ==
    /\ \A c \in Conns : pc[c] = "done"
    /\ \E c \in Conns : loc[c].blocked
    /\ \E e \in Expenses : Cardinality(SharesOf(e)) >= 2

RECURSIVE OwnPendingSum(_, _, _)
\* The amounts of the user's own pending shares of other payers' expenses,
\* added up from share row i on.
OwnPendingSum(user_id, i, acc) ==
    IF i > Len(ges) THEN acc
    ELSE OwnPendingSum(user_id, i + 1,
             IF /\ ges[i].user_id = user_id
                /\ ges[i].is_settled = 0
                /\ ge[ges[i].group_expense_id].payer_id # user_id
             THEN FAdd(acc, ges[i].share_amount)
             ELSE acc)

\* C11: the "You Owe" total of every user is the sum of the user's own
\* shares that are not settled, over the expenses the user did not pay; a
\* share the user has settled no longer counts.
C11_OwedIsOwnPendingShares ==
    \A u \in Users : Balance(u).total_owed = OwnPendingSum(u, 1, 0)

RECURSIVE PaidSum(_, _, _)
\* The amounts of the expenses the user paid, each expense once, added up
\* from expense e on.
PaidSum(user_id, e, acc) ==
    IF e > Len(ge) THEN acc
    ELSE PaidSum(user_id, e + 1,
             IF ge[e].payer_id = user_id THEN FAdd(acc, ge[e].amount) ELSE acc)

\* C15: the "You Paid" total of every user is the sum of the amounts of the
\* expenses the user paid, each expense counted once however many share
\* rows it has.
C15_PaidCountsEachExpenseOnce ==
    \A u \in Users : Balance(u).total_paid = PaidSum(u, 1, 0)

\* C12: settlement is one-way: no step takes a settled share back to
\* pending, and no step takes a settled expense back to pending.
C12_SettlementIsOneWay ==
    [][/\ \A i \in 1..Len(ges) :
            ges[i].is_settled = 1 => ges'[i].is_settled = 1
       /\ \A e \in Expenses :
            ge[e].is_settled = 1 => ge'[e].is_settled = 1]_vars

\* An expense of three shares, all settled: the third settlement was made
\* with two shares settled already, and they still are.
C12_Witness ==
    \E e \in Expenses :
        /\ Cardinality(SettledOf(e)) = 3
        /\ PendingOf(e) = {}
        /\ ge[e].is_settled = 1

\* The calls of set_budget made for a key, by their position in set_calls.
CallsFor(user_id, year_month, category) ==
    {k \in 1..Len(set_calls) :
        /\ set_calls[k].user_id = user_id
        /\ set_calls[k].year_month = year_month
        /\ set_calls[k].category = category}

\* The amount given in the most recent set_budget call for a key that has
\* had one.
LastSet(user_id, year_month, category) ==
    LET calls == CallsFor(user_id, year_month, category)
    IN  set_calls[CHOOSE k \in calls : \A j \in calls : j <= k].amount

\* C13: after any sequence of set_budget calls the budgets table has at
\* most one row per (user_id, year_month, category), the overall budget
\* (category None) included, and get_budget returns the amount of the most
\* recent set_budget call for the key.
C13_OneRowPerKeyLatestAmount ==
    \A u \in Users, ym \in YearMonths, cat \in Categories :
        /\ Cardinality(Selected(u, ym, cat)) <= 1
        /\ CallsFor(u, ym, cat) # {} =>
              get_budget(u, ym, cat) = {LastSet(u, ym, cat)}

\* C14: an equal split of a positive total among N >= 1 participants has
\* N + 1 shares, one for each participant and one for the payer, each of
\* total / (N + 1), and the submission passes the share-sum validation.
C14_EqualSplitPassesValidation ==
    split.stage = "submitted" =>
        /\ Len(split.shares) = split.n + 1
        /\ \A i \in 1..split.n :
              split.shares[i].user_id = Participants(split.user, split.n)[i]
        /\ split.shares[split.n + 1].user_id = split.user
        /\ \A i \in 1..(split.n + 1) :
              split.shares[i].amount = FDiv(split.amount, split.n + 1)
        /\ split.accepted

====
